---- MODULE Spec2Model ----
(***************************************************************************)
(* Model of the multicloud-vms Pulumi program: the configuration holders   *)
(* AWSConfig / AzureConfig, the constructors EC2Instance and AzureVM of    *)
(* src/multicloud_vm/__init__.py, the older EC2Instance of src/__init__.py *)
(* and the entry points.  A constructor call registers resources with the  *)
(* engine and publishes stack outputs; the model keeps both, in program    *)
(* order, in the sequence `log`.                                           *)
(*                                                                         *)
(* Python values: a str is a TLA+ string, None is the value None below,    *)
(* a dict is a function from its keys, a list is a sequence, and an        *)
(* Optional[Dict] is NoDict or Given(d).  A value the engine computes at   *)
(* deployment (an id, an address, the looked-up AMI) is the symbolic       *)
(* string Attr(...) / get_ami(...).                                        *)
(***************************************************************************)
EXTENDS Naturals, Sequences, FiniteSets, TLC

VARIABLES
    awsConfig,    \* <<>> or <<the AWSConfig object the program built>>
    azureConfig,  \* <<>> or <<the AzureConfig object the program built>>
    reads,        \* the config.get calls made: <<key, value returned>>
    calls,        \* the constructor calls made: [ctor, args]
    log           \* the engine's view: resources registered, outputs exported

vars == <<awsConfig, azureConfig, reads, calls, log>>

-----------------------------------------------------------------------------
(* Python values *)

None == "<None>"

EmptyDict == [k \in {} |-> None]

\* Optional[Dict[str, str]]: None, or a dict
NoDict == <<>>

Given(d) == <<d>>

\* tags or {}
OrEmptyDict(tags) ==
    IF tags = NoDict \/ DOMAIN tags[1] = {} THEN EmptyDict ELSE tags[1]

\* bool(x) of an Optional[str]
Truthy(x) == x # None /\ x # ""

\* x or y
Or(x, y) == IF Truthy(x) THEN x ELSE y

\* d.update(t) seen as a value: the keys of t win
Update(d, t) ==
    [k \in (DOMAIN d) \cup (DOMAIN t) |-> IF k \in DOMAIN t THEN t[k] ELSE d[k]]

\* pulumi.get_stack()
get_stack == "dev"

\* an Output attribute of a registered resource, known only at deployment
Attr(name, attr) == name \o "." \o attr

-----------------------------------------------------------------------------
(* Input domains *)

DefaultPrefix == "multicloud-vm"

Prefixes == {DefaultPrefix, "app"}

Names == {None, "web"}

TagArgs == {NoDict, Given([Owner |-> "ops"]), Given([Name |-> "tagged"])}

\* providers the caller built itself and passes in
AwsProviders == {[name |-> "aws-west", region |-> "us-west-2"]}

AzureProviders == {[name |-> "azure-ext", region |-> None]}

NoProvider == [name |-> None, region |-> None]

-----------------------------------------------------------------------------
(* Configuration holders *)

AWSConfig(instance_size, region, os_image, tags) ==
    [instance_size |-> instance_size,
     region        |-> region,
     os_image      |-> os_image,
     tags          |-> OrEmptyDict(tags)]

\* AWSConfig()
AWSConfigDefault == AWSConfig("t3.micro", "us-east-1", None, NoDict)

AzureConfig(vm_size, location, os_image, admin_username, admin_password, resource_group_name, tags) ==
    [vm_size             |-> vm_size,
     location            |-> location,
     os_image            |-> os_image,
     admin_username      |-> admin_username,
     admin_password      |-> admin_password,
     resource_group_name |-> resource_group_name,
     tags                |-> OrEmptyDict(tags)]

\* AzureConfig()
AzureConfigDefault ==
    AzureConfig("Standard_B1s", "East US", None, "azureuser", None, None, NoDict)

-----------------------------------------------------------------------------
(* Log entries *)

Resource(c, type, name, provider, props) ==
    [call |-> c, kind |-> "resource", type |-> type, name |-> name,
     provider |-> provider, props |-> props]

\* pulumi.export(name, value)
Export(c, name, value) ==
    [call |-> c, kind |-> "export", type |-> "output", name |-> name,
     provider |-> NoProvider, props |-> [value |-> value]]

-----------------------------------------------------------------------------
(* EC2Instance of src/multicloud_vm/__init__.py *)

\* the provider object behind a provider argument that is not None
ProviderObject(providers, handle) == CHOOSE p \in providers : p.name = handle

\* aws.ec2.get_ami(..., opts=InvokeOptions(provider=aws_provider)).id
get_ami(provider) == "ami:amzn2-ami-hvm@" \o provider.region

\* a merge written the other way round, into the dict the config holds:
\* tags.update(instance_tags); instance_tags = tags
MergeTagsIntoConfig(default_tags, tags) ==
    [merged |-> Update(tags, default_tags), tags |-> Update(tags, default_tags)]

\* instance_tags = {...}; instance_tags.update(tags): both dicts afterwards
MergeTags(default_tags, tags) ==
    [merged |-> Update(default_tags, tags), tags |-> tags]

\* lines 58-67: the values after the config branch
EC2Resolve(a, config) ==
    IF a.config # None
    THEN [instance_size |-> Or(a.instance_size, config[1].instance_size),
          region        |-> Or(a.region, config[1].region),
          os_image      |-> Or(a.os_image, config[1].os_image),
          tags          |-> config[1].tags]
    ELSE [instance_size |-> Or(a.instance_size, "t3.micro"),
          region        |-> Or(a.region, "us-east-1"),
          os_image      |-> a.os_image,
          tags          |-> EmptyDict]

\* a provider created under a name that leaves resource_prefix out
EC2ProviderFixedName(a, region) ==
    IF a.aws_provider = None
    THEN [name |-> "aws-provider", region |-> region]
    ELSE ProviderObject(AwsProviders, a.aws_provider)

\* lines 69-71: the provider every later declaration is made under
EC2Provider(a, region) ==
    IF a.aws_provider = None
    THEN [name |-> a.resource_prefix \o "-aws-provider", region |-> region]
    ELSE ProviderObject(AwsProviders, a.aws_provider)

SecurityGroupRules ==
    [ingress |-> << [protocol |-> "tcp", from_port |-> 22, to_port |-> 22,
                     cidr_blocks |-> <<"0.0.0.0/0">>],
                    [protocol |-> "tcp", from_port |-> 80, to_port |-> 80,
                     cidr_blocks |-> <<"0.0.0.0/0">>],
                    [protocol |-> "tcp", from_port |-> 443, to_port |-> 443,
                     cidr_blocks |-> <<"0.0.0.0/0">>] >>,
     egress  |-> << [protocol |-> "-1", from_port |-> 0, to_port |-> 0,
                     cidr_blocks |-> <<"0.0.0.0/0">>] >>]

\* outputs with the values of region and instance_type exchanged
EC2ExportsSwapped(c, inst, region, instance_size, os_image) ==
    << Export(c, "instance_id", Attr(inst, "id")),
       Export(c, "instance_public_ip", Attr(inst, "public_ip")),
       Export(c, "instance_private_ip", Attr(inst, "private_ip")),
       Export(c, "instance_public_dns", Attr(inst, "public_dns")),
       Export(c, "region", instance_size),
       Export(c, "instance_type", region),
       Export(c, "ami_id", os_image) >>

\* lines 147-154: the outputs of a call, inst being the instance's name
EC2Exports(c, inst, region, instance_size, os_image) ==
    << Export(c, "instance_id", Attr(inst, "id")),
       Export(c, "instance_public_ip", Attr(inst, "public_ip")),
       Export(c, "instance_private_ip", Attr(inst, "private_ip")),
       Export(c, "instance_public_dns", Attr(inst, "public_dns")),
       Export(c, "region", region),
       Export(c, "instance_type", instance_size),
       Export(c, "ami_id", os_image) >>

\* One call EC2Instance(**a), the c-th constructor call of the program:
\* what it registers and exports, in order, and the tags dict of the config
\* object as the call leaves it.
EC2Instance(c, a, config) ==
    LET r             == EC2Resolve(a, config)
        aws_provider  == EC2Provider(a, r.region)
        os_image      == IF r.os_image = None THEN get_ami(aws_provider)
                                              ELSE r.os_image
        sg_name       == a.resource_prefix \o "-sg"
        instance_name == Or(a.name, a.resource_prefix \o "-" \o get_stack)
        t             == MergeTags([Name        |-> instance_name,
                                    Project     |-> a.resource_prefix,
                                    Environment |-> get_stack], r.tags)
        inst          == a.resource_prefix \o "-instance"
    IN  [log |->
            (IF a.aws_provider = None
             THEN << Resource(c, "pulumi:providers:aws", aws_provider.name,
                              NoProvider, [region |-> r.region]) >>
             ELSE << >>)
            \o
            << Resource(c, "aws:ec2:SecurityGroup", sg_name, aws_provider,
                        [description |-> "Security group for "
                                         \o a.resource_prefix \o " EC2 instance",
                         rules |-> SecurityGroupRules]),
               Resource(c, "aws:ec2:Instance", inst, aws_provider,
                        [ami |-> os_image,
                         instance_type |-> r.instance_size,
                         vpc_security_group_ids |-> << Attr(sg_name, "id") >>,
                         tags |-> t.merged]) >>
            \o EC2Exports(c, inst, r.region, r.instance_size, os_image),
         tags |-> t.tags]

\* the config object after a call that was given it
AfterCall(a, config, tags) ==
    IF a.config # None THEN << [config[1] EXCEPT !.tags = tags] >> ELSE config

\* arguments of EC2Instance; None for an argument left out
EC2Args ==
    [name            : Names,
     config          : {None, "AWSConfig"},
     instance_size   : {None, "", "t3.small"},
     region          : {None, "", "eu-west-1"},
     os_image        : {None, "", "ami-0abc"},
     aws_provider    : {None} \cup {p.name : p \in AwsProviders},
     resource_prefix : Prefixes]

EC2InstanceCall(a) ==
    /\ a.config # None => awsConfig # << >>
    /\ LET out == EC2Instance(Len(calls) + 1, a, awsConfig)
       IN  /\ log' = log \o out.log
           /\ awsConfig' = AfterCall(a, awsConfig, out.tags)
    /\ calls' = Append(calls, [ctor |-> "EC2Instance", args |-> a])
    /\ UNCHANGED <<azureConfig, reads>>

\* the program builds its AWSConfig object: AWSConfig(*v)
NewAWSConfig(v) ==
    /\ awsConfig = << >>
    /\ calls = << >>
    /\ awsConfig' = << AWSConfig(v[1], v[2], v[3], v[4]) >>
    /\ UNCHANGED <<azureConfig, reads, calls, log>>

AWSConfigInputs ==
    {"t3.micro", "m5.large"} \X {"us-east-1", "ap-south-1"}
        \X {None, "ami-0cfg"} \X TagArgs

-----------------------------------------------------------------------------
(* AzureVM of src/multicloud_vm/__init__.py *)

UbuntuImage == "Canonical:0001-com-ubuntu-server-focal:20_04-lts-gen2:latest"

\* lines 184-206: the values after the config branch and the group-name default
AzureResolve(a, config) ==
    LET r == IF a.config # None
             THEN [vm_size        |-> Or(a.vm_size, config[1].vm_size),
                   location       |-> Or(a.location, config[1].location),
                   os_image       |-> Or(a.os_image, config[1].os_image),
                   admin_username |-> Or(a.admin_username, config[1].admin_username),
                   admin_password |-> Or(a.admin_password, config[1].admin_password),
                   resource_group_name |->
                       Or(a.resource_group_name, config[1].resource_group_name),
                   tags           |-> config[1].tags]
             ELSE [vm_size        |-> Or(a.vm_size, "Standard_B1s"),
                   location       |-> Or(a.location, "East US"),
                   os_image       |-> a.os_image,
                   admin_username |-> Or(a.admin_username, "azureuser"),
                   admin_password |-> a.admin_password,
                   resource_group_name |->
                       Or(a.resource_group_name, a.resource_prefix \o "-rg"),
                   tags           |-> EmptyDict]
    IN  [r EXCEPT !.resource_group_name =
            IF ~Truthy(@) THEN a.resource_prefix \o "-rg" ELSE @]

\* a provider created whether or not one was passed
AzureProviderIgnoresArgument(a) ==
    [name |-> a.resource_prefix \o "-azure-provider", region |-> None]

\* lines 200-202
AzureProvider(a) ==
    IF a.azure_provider = None
    THEN [name |-> a.resource_prefix \o "-azure-provider", region |-> None]
    ELSE ProviderObject(AzureProviders, a.azure_provider)

NsgSecurityRules ==
    << [name |-> "SSH", priority |-> 1001, direction |-> "Inbound",
        access |-> "Allow", protocol |-> "Tcp", destination_port_range |-> "22"],
       [name |-> "HTTP", priority |-> 1002, direction |-> "Inbound",
        access |-> "Allow", protocol |-> "Tcp", destination_port_range |-> "80"],
       [name |-> "HTTPS", priority |-> 1003, direction |-> "Inbound",
        access |-> "Allow", protocol |-> "Tcp", destination_port_range |-> "443"] >>

\* lines 339-344: the image the virtual machine is declared with
StorageImageReference(os_image) ==
    [publisher |-> "Canonical", offer |-> "0001-com-ubuntu-server-focal",
     sku |-> "20_04-lts-gen2", version |-> "latest"]

\* lines 363-370: the outputs of a call; vm, publicip, nic and rg are the
\* names of the resources whose attributes are published
AzureExports(c, vm, publicip, nic, rg, location, vm_size, vm_name) ==
    << Export(c, "vm_id", Attr(vm, "id")),
       Export(c, "vm_public_ip", Attr(publicip, "ip_address")),
       Export(c, "vm_private_ip", Attr(nic, "private_ip_address")),
       Export(c, "vm_location", location),
       Export(c, "vm_size", vm_size),
       Export(c, "vm_name", vm_name),
       Export(c, "resource_group_name", Attr(rg, "name")) >>

\* One call AzureVM(**a), the c-th constructor call of the program.
AzureVM(c, a, config) ==
    LET r        == AzureResolve(a, config)
        p        == a.resource_prefix
        prov     == AzureProvider(a)
        rg       == p \o "-rg"
        vnet     == p \o "-vnet"
        subnet   == p \o "-subnet"
        nsg      == p \o "-nsg"
        publicip == p \o "-publicip"
        nic      == p \o "-nic"
        vm       == p \o "-vm"
        vm_name  == Or(a.name, p \o "-" \o get_stack)
        t        == MergeTags([Name        |-> vm_name,
                               Project     |-> p,
                               Environment |-> get_stack], r.tags)
        os_image == IF r.os_image = None THEN UbuntuImage ELSE r.os_image
    IN  [log |->
            (IF a.azure_provider = None
             THEN << Resource(c, "pulumi:providers:azure", prov.name,
                              NoProvider, EmptyDict) >>
             ELSE << >>)
            \o
            << Resource(c, "azure:core:ResourceGroup", rg, prov,
                        [name |-> r.resource_group_name,
                         location |-> r.location,
                         tags |-> r.tags]),
               Resource(c, "azure:network:VirtualNetwork", vnet, prov,
                        [name |-> vnet,
                         address_spaces |-> <<"10.0.0.0/16">>,
                         location |-> r.location,
                         resource_group_name |-> Attr(rg, "name"),
                         tags |-> r.tags]),
               Resource(c, "azure:network:Subnet", subnet, prov,
                        [name |-> subnet,
                         resource_group_name |-> Attr(rg, "name"),
                         virtual_network_name |-> Attr(vnet, "name"),
                         address_prefixes |-> <<"10.0.1.0/24">>]),
               Resource(c, "azure:network:NetworkSecurityGroup", nsg, prov,
                        [name |-> nsg,
                         location |-> r.location,
                         resource_group_name |-> Attr(rg, "name"),
                         security_rules |-> NsgSecurityRules,
                         tags |-> r.tags]),
               Resource(c, "azure:network:PublicIp", publicip, prov,
                        [name |-> publicip,
                         location |-> r.location,
                         resource_group_name |-> Attr(rg, "name"),
                         allocation_method |-> "Dynamic",
                         tags |-> r.tags]),
               Resource(c, "azure:network:NetworkInterface", nic, prov,
                        [name |-> nic,
                         location |-> r.location,
                         resource_group_name |-> Attr(rg, "name"),
                         ip_configurations |->
                             << [name |-> p \o "-ipconfig",
                                 private_ip_address_allocation |-> "Dynamic",
                                 subnet_id |-> Attr(subnet, "id"),
                                 public_ip_address_id |-> Attr(publicip, "id")] >>,
                         tags |-> r.tags]),
               Resource(c, "azure:network:SubnetNetworkSecurityGroupAssociation",
                        p \o "-subnet-nsg-association", prov,
                        [subnet_id |-> Attr(subnet, "id"),
                         network_security_group_id |-> Attr(nsg, "id")]),
               Resource(c, "azure:compute:VirtualMachine", vm, prov,
                        [name |-> vm_name,
                         location |-> r.location,
                         resource_group_name |-> Attr(rg, "name"),
                         network_interface_ids |-> << Attr(nic, "id") >>,
                         vm_size |-> r.vm_size,
                         storage_image_reference |-> StorageImageReference(os_image),
                         storage_os_disk |->
                             [name |-> vm_name \o "-osdisk",
                              caching |-> "ReadWrite",
                              create_option |-> "FromImage",
                              managed_disk_type |-> "Standard_LRS"],
                         os_profile |->
                             [computer_name |-> vm_name,
                              admin_username |-> r.admin_username,
                              admin_password |-> r.admin_password],
                         os_profile_linux_config |->
                             [disable_password_authentication |-> FALSE],
                         tags |-> t.merged]) >>
            \o AzureExports(c, vm, publicip, nic, rg, r.location, r.vm_size, vm_name),
         tags |-> t.tags]

\* arguments of AzureVM; None for an argument left out
AzureArgs ==
    [name                : Names,
     config              : {None, "AzureConfig"},
     vm_size             : {None, "", "Standard_B2s"},
     location            : {None, "West US"},
     os_image            : {None, "", "Debian:debian-11:11:latest"},
     admin_username      : {None, "admin1"},
     admin_password      : {None, "", "S3cret!"},
     resource_group_name : {None, "", "shared-rg"},
     azure_provider      : {None} \cup {p.name : p \in AzureProviders},
     resource_prefix     : Prefixes]

AzureVMCall(a) ==
    /\ a.config # None => azureConfig # << >>
    /\ LET out == AzureVM(Len(calls) + 1, a, azureConfig)
       IN  /\ log' = log \o out.log
           /\ azureConfig' = AfterCall(a, azureConfig, out.tags)
    /\ calls' = Append(calls, [ctor |-> "AzureVM", args |-> a])
    /\ UNCHANGED <<awsConfig, reads>>

\* the program builds its AzureConfig object: AzureConfig(*v)
NewAzureConfig(v) ==
    /\ azureConfig = << >>
    /\ calls = << >>
    /\ azureConfig' = << AzureConfig(v[1], v[2], v[3], v[4], v[5], v[6], v[7]) >>
    /\ UNCHANGED <<awsConfig, reads, calls, log>>

AzureConfigInputs ==
    {<<s, v[1], o, v[2], pw, g, v[3]>> :
        s \in {"Standard_B1s", "Standard_D2s"},
        v \in {<<"East US", "azureuser", NoDict>>,
               <<"North Europe", "ops", Given([Name |-> "tagged"])>>},
        o \in {None, "RedHat:RHEL:8-lvm-gen2:latest"},
        pw \in {None, "cfg-pw"},
        g \in {None, "cfg-rg"}}

-----------------------------------------------------------------------------
(* EC2Instance of src/__init__.py: no config object, defaults in the signature *)

\* lines 99-106
RootEC2Exports(c, inst, region, instance_size, os_image) ==
    << Export(c, "instance_id", Attr(inst, "id")),
       Export(c, "instance_public_ip", Attr(inst, "public_ip")),
       Export(c, "instance_private_ip", Attr(inst, "private_ip")),
       Export(c, "instance_public_dns", Attr(inst, "public_dns")),
       Export(c, "region", region),
       Export(c, "instance_type", instance_size),
       Export(c, "ami_id", os_image) >>

RootEC2Instance(c, a) ==
    LET aws_provider  == EC2Provider(a, a.region)
        os_image      == IF a.os_image = None THEN get_ami(aws_provider)
                                              ELSE a.os_image
        sg_name       == a.resource_prefix \o "-sg"
        instance_name == Or(a.name, a.resource_prefix \o "-" \o get_stack)
        inst          == a.resource_prefix \o "-instance"
    IN  (IF a.aws_provider = None
         THEN << Resource(c, "pulumi:providers:aws", aws_provider.name,
                          NoProvider, [region |-> a.region]) >>
         ELSE << >>)
        \o
        << Resource(c, "aws:ec2:SecurityGroup", sg_name, aws_provider,
                    [description |-> "Security group for "
                                     \o a.resource_prefix \o " EC2 instance",
                     rules |-> SecurityGroupRules]),
           Resource(c, "aws:ec2:Instance", inst, aws_provider,
                    [ami |-> os_image,
                     instance_type |-> a.instance_size,
                     vpc_security_group_ids |-> << Attr(sg_name, "id") >>,
                     tags |-> [Name        |-> instance_name,
                               Project     |-> a.resource_prefix,
                               Environment |-> get_stack]]) >>
        \o RootEC2Exports(c, inst, a.region, a.instance_size, os_image)

\* arguments of the older EC2Instance; an argument left out has its default
RootEC2Args ==
    [name            : Names,
     instance_size   : {"t3.micro", "t3.small"},
     region          : {"us-east-1", "eu-west-1"},
     os_image        : {None, "ami-0abc"},
     aws_provider    : {None} \cup {p.name : p \in AwsProviders},
     resource_prefix : Prefixes]

RootEC2InstanceCall(a) ==
    /\ log' = log \o RootEC2Instance(Len(calls) + 1, a)
    /\ calls' = Append(calls, [ctor |-> "RootEC2Instance", args |-> a])
    /\ UNCHANGED <<awsConfig, azureConfig, reads>>

-----------------------------------------------------------------------------
(* Entry points *)

ConfigKeys == {"instance_size", "region", "os_image", "instance_name", "vm_size"}

\* what the engine's configuration store may hold; None for a key not set
Stores ==
    {st \in [ConfigKeys -> {None, "", "t3.large", "us-west-1", "ami-0777", "db"}] :
        /\ st["instance_size"] \in {None, "", "t3.large"}
        /\ st["region"] \in {None, "", "us-west-1"}
        /\ st["os_image"] \in {None, "ami-0777"}
        /\ st["instance_name"] \in {None, "db"}
        /\ st["vm_size"] \in {None, "t3.large"}}

\* config.get(key)
Get(st, key) == <<key, st[key]>>

\* the entry point without the fallback of region
MainArgsNoRegionDefault(st) ==
    [name            |-> st["instance_name"],
     config          |-> None,
     instance_size   |-> Or(st["instance_size"], "t3.micro"),
     region          |-> st["region"],
     os_image        |-> st["os_image"],
     aws_provider    |-> None,
     resource_prefix |-> DefaultPrefix]

\* the arguments the entry point passes to EC2Instance
MainArgs(st) ==
    [name            |-> st["instance_name"],
     config          |-> None,
     instance_size   |-> Or(st["instance_size"], "t3.micro"),
     region          |-> Or(st["region"], "us-east-1"),
     os_image        |-> st["os_image"],
     aws_provider    |-> None,
     resource_prefix |-> DefaultPrefix]

\* src/__main__.py
Main(st) ==
    /\ reads' = reads \o << Get(st, "instance_size"), Get(st, "region"),
                           Get(st, "os_image"), Get(st, "instance_name") >>
    /\ LET a   == MainArgs(st)
           out == EC2Instance(Len(calls) + 1, a, awsConfig)
       IN  /\ log' = log \o out.log
           /\ awsConfig' = AfterCall(a, awsConfig, out.tags)
           /\ calls' = Append(calls, [ctor |-> "EC2Instance", args |-> a])
    /\ UNCHANGED azureConfig

\* the __main__ block of src/multicloud_vm/__init__.py
ModuleMain(st) == Main(st)

-----------------------------------------------------------------------------
(* Spec: one declaration pass.  The program is an entry point, or it builds  *)
(* a config object (or none) and makes one constructor call.               *)

Init ==
    /\ awsConfig = << >>
    /\ azureConfig = << >>
    /\ reads = << >>
    /\ calls = << >>
    /\ log = << >>

Fresh == calls = << >> /\ reads = << >>

NoConfigBuilt == awsConfig = << >> /\ azureConfig = << >>

Next ==
    \/ azureConfig = << >> /\ \E v \in AWSConfigInputs : NewAWSConfig(v)
    \/ awsConfig = << >> /\ \E v \in AzureConfigInputs : NewAzureConfig(v)
    \/ Fresh /\ azureConfig = << >> /\ \E a \in EC2Args : EC2InstanceCall(a)
    \/ Fresh /\ awsConfig = << >> /\ \E a \in AzureArgs : AzureVMCall(a)
    \/ Fresh /\ NoConfigBuilt /\ \E a \in RootEC2Args : RootEC2InstanceCall(a)
    \/ Fresh /\ NoConfigBuilt /\ \E st \in Stores : Main(st)
    \/ Fresh /\ NoConfigBuilt /\ \E st \in Stores : ModuleMain(st)

Spec == Init /\ [][Next]_vars

-----------------------------------------------------------------------------
(* SpecProgram: a program that builds its config objects and then makes up *)
(* to MaxCalls constructor calls, reusing the objects and choosing prefixes *)

MaxCalls == 2

ProgramPrefixes == {DefaultPrefix, "app", "app-vm"}

ProgramEC2Args ==
    [name            : Names,
     config          : {None, "AWSConfig"},
     instance_size   : {None},
     region          : {None},
     os_image        : {None},
     aws_provider    : {None} \cup {p.name : p \in AwsProviders},
     resource_prefix : ProgramPrefixes]

ProgramAzureArgs ==
    [name                : Names,
     config              : {None, "AzureConfig"},
     vm_size             : {None},
     location            : {None},
     os_image            : {None},
     admin_username      : {None},
     admin_password      : {None},
     resource_group_name : {None},
     azure_provider      : {None} \cup {p.name : p \in AzureProviders},
     resource_prefix     : ProgramPrefixes]

ProgramAWSConfigInputs ==
    {<<"m5.large", "ap-south-1", None, t>> : t \in TagArgs \ {NoDict}}

ProgramAzureConfigInputs ==
    {<<"Standard_D2s", "North Europe", None, "ops", None, "cfg-rg",
       Given([Owner |-> "ops"])>>}

NextProgram ==
    \/ \E v \in ProgramAWSConfigInputs : NewAWSConfig(v)
    \/ \E v \in ProgramAzureConfigInputs : NewAzureConfig(v)
    \/ Len(calls) < MaxCalls /\ \E a \in ProgramEC2Args : EC2InstanceCall(a)
    \/ Len(calls) < MaxCalls /\ \E a \in ProgramAzureArgs : AzureVMCall(a)

SpecProgram == Init /\ [][NextProgram]_vars

-----------------------------------------------------------------------------
(* SpecPair: the same call made twice, first with a default-constructed    *)
(* config object and then with config=None                                 *)

InitPair ==
    /\ awsConfig = << AWSConfigDefault >>
    /\ azureConfig = << AzureConfigDefault >>
    /\ reads = << >>
    /\ calls = << >>
    /\ log = << >>

NextPair ==
    \/ calls = << >> /\ \E a \in EC2Args : a.config # None /\ EC2InstanceCall(a)
    \/ calls = << >> /\ \E a \in AzureArgs : a.config # None /\ AzureVMCall(a)
    \/ Len(calls) = 1 /\ calls[1].ctor = "EC2Instance"
         /\ EC2InstanceCall([calls[1].args EXCEPT !.config = None])
    \/ Len(calls) = 1 /\ calls[1].ctor = "AzureVM"
         /\ AzureVMCall([calls[1].args EXCEPT !.config = None])

SpecPair == InitPair /\ [][NextPair]_vars

-----------------------------------------------------------------------------
(* Reading the log *)

CallIds == 1 .. Len(calls)

Args(c) == calls[c].args

IsEC2(c) == calls[c].ctor = "EC2Instance"

IsRootEC2(c) == calls[c].ctor = "RootEC2Instance"

IsAzure(c) == calls[c].ctor = "AzureVM"

\* positions in the log of what call c registered / exported
ResourceIdx(c) == {i \in 1 .. Len(log) : log[i].call = c /\ log[i].kind = "resource"}

ExportIdx(c) == {i \in 1 .. Len(log) : log[i].call = c /\ log[i].kind = "export"}

ResourcesOf(c) == SelectSeq(log, LAMBDA e : e.call = c /\ e.kind = "resource")

TypesOf(c) == [i \in 1 .. Len(ResourcesOf(c)) |-> ResourcesOf(c)[i].type]

HasResource(c, type) == \E i \in ResourceIdx(c) : log[i].type = type

TheResource(c, type) == log[CHOOSE i \in ResourceIdx(c) : log[i].type = type]

HasExport(c, name) == \E i \in ExportIdx(c) : log[i].name = name

Exported(c, name) == log[CHOOSE i \in ExportIdx(c) : log[i].name = name].props.value

\* the precedence the documentation states: the explicit argument when one
\* was passed, else the config field when a config was passed and sets it,
\* else the default
Precedence(arg, has_config, field, default) ==
    IF arg # None THEN arg
    ELSE IF has_config /\ field # None THEN field
    ELSE default

\* "publisher:offer:sku:version" of an image reference
ImageUrn(ref) ==
    ref.publisher \o ":" \o ref.offer \o ":" \o ref.sku \o ":" \o ref.version

EC2Declared(c) ==
    IsEC2(c) /\ HasResource(c, "aws:ec2:Instance") /\ HasExport(c, "region")

AzureDeclared(c) ==
    IsAzure(c) /\ HasResource(c, "azure:compute:VirtualMachine")
               /\ HasResource(c, "azure:core:ResourceGroup")

-----------------------------------------------------------------------------
(* C1 *)

C1_EC2Values(c) ==
    LET a    == Args(c)
        has  == a.config # None
        cfg  == IF has THEN awsConfig[1] ELSE AWSConfigDefault
        inst == TheResource(c, "aws:ec2:Instance")
    IN  /\ inst.props.instance_type
             = Precedence(a.instance_size, has, cfg.instance_size, "t3.micro")
        /\ Exported(c, "region") = Precedence(a.region, has, cfg.region, "us-east-1")
        /\ inst.props.ami
             = Precedence(a.os_image, has, cfg.os_image, get_ami(inst.provider))

C1_AzureValues(c) ==
    LET a   == Args(c)
        has == a.config # None
        cfg == IF has THEN azureConfig[1] ELSE AzureConfigDefault
        vm  == TheResource(c, "azure:compute:VirtualMachine")
        rg  == TheResource(c, "azure:core:ResourceGroup")
    IN  /\ vm.props.vm_size = Precedence(a.vm_size, has, cfg.vm_size, "Standard_B1s")
        /\ vm.props.location = Precedence(a.location, has, cfg.location, "East US")
        /\ vm.props.os_profile.admin_username
             = Precedence(a.admin_username, has, cfg.admin_username, "azureuser")
        /\ vm.props.os_profile.admin_password
             = Precedence(a.admin_password, has, cfg.admin_password, None)
        /\ rg.props.name
             = Precedence(a.resource_group_name, has, cfg.resource_group_name,
                          a.resource_prefix \o "-rg")
        /\ ImageUrn(vm.props.storage_image_reference)
             = Precedence(a.os_image, has, cfg.os_image, UbuntuImage)

\* every argument of call c is None or a non-empty string
NonEmptyArgs(c) == \A f \in DOMAIN Args(c) : Args(c)[f] # ""

\* C1: in every call of EC2Instance and of AzureVM, each value the
\* declarations use is the explicit argument when one was passed, else the
\* config object's field, else the hard-coded default.  Stated for the calls
\* whose arguments are None or non-empty strings.
C1_ResolutionOrder ==
    \A c \in CallIds : NonEmptyArgs(c) =>
        /\ EC2Declared(c) => C1_EC2Values(c)
        /\ AzureDeclared(c) => C1_AzureValues(c)

-----------------------------------------------------------------------------
(* C2 *)

AzureSeven ==
    << "azure:core:ResourceGroup", "azure:network:VirtualNetwork",
       "azure:network:Subnet", "azure:network:NetworkSecurityGroup",
       "azure:network:PublicIp", "azure:network:NetworkInterface",
       "azure:compute:VirtualMachine" >>

Association == "azure:network:SubnetNetworkSecurityGroupAssociation"

AzureEight == SubSeq(AzureSeven, 1, 6) \o << Association >> \o SubSeq(AzureSeven, 7, 7)

\* the attributes of other resources that a declaration is given
References(e) ==
    CASE e.type = "azure:network:VirtualNetwork" -> {e.props.resource_group_name}
      [] e.type = "azure:network:Subnet" ->
            {e.props.resource_group_name, e.props.virtual_network_name}
      [] e.type = "azure:network:NetworkSecurityGroup" -> {e.props.resource_group_name}
      [] e.type = "azure:network:PublicIp" -> {e.props.resource_group_name}
      [] e.type = "azure:network:NetworkInterface" ->
            {e.props.resource_group_name}
            \cup {e.props.ip_configurations[k].subnet_id :
                     k \in DOMAIN e.props.ip_configurations}
            \cup {e.props.ip_configurations[k].public_ip_address_id :
                     k \in DOMAIN e.props.ip_configurations}
      [] e.type = Association ->
            {e.props.subnet_id, e.props.network_security_group_id}
      [] e.type = "azure:compute:VirtualMachine" ->
            {e.props.resource_group_name}
            \cup {e.props.network_interface_ids[k] :
                     k \in DOMAIN e.props.network_interface_ids}
      [] e.type = "aws:ec2:Instance" ->
            {e.props.vpc_security_group_ids[k] :
                     k \in DOMAIN e.props.vpc_security_group_ids}
      [] OTHER -> {}

\* entry i refers only to resources its own call registered before it, and is
\* registered under a provider that was passed in or registered before it
DeclaredAfterItsReferences(i) ==
    /\ \A v \in References(log[i]) :
          \E j \in 1 .. (i - 1) :
              /\ log[j].call = log[i].call
              /\ log[j].kind = "resource"
              /\ v \in {Attr(log[j].name, "id"), Attr(log[j].name, "name")}
    /\ \/ log[i].provider = NoProvider
       \/ log[i].provider \in AwsProviders \cup AzureProviders
       \/ \E j \in 1 .. (i - 1) :
              /\ log[j].call = log[i].call
              /\ log[j].type \in {"pulumi:providers:aws", "pulumi:providers:azure"}
              /\ log[j].name = log[i].provider.name

\* the resource types call c registered, the association left out
WithoutAssociation(c) ==
    LET kept == SelectSeq(ResourcesOf(c), LAMBDA e : e.type # Association)
    IN  [i \in 1 .. Len(kept) |-> kept[i].type]

\* C2 as stated: whatever the input, a call of AzureVM declares the resource
\* group, virtual network, subnet, security group, public IP, interface and
\* virtual machine once each in that order, and nothing an input could add or
\* remove (the subnet association the claim orders separately aside), each
\* after what it references.
C2_FixedSequenceAnyInput ==
    \A c \in CallIds : IsAzure(c) =>
        /\ WithoutAssociation(c) = AzureSeven
        /\ \A i \in ResourceIdx(c) : DeclaredAfterItsReferences(i)

\* C2, amended: the only declaration an input decides is the provider, which
\* is declared first exactly when no azure_provider is passed; after it every
\* call declares the same eight resources in the same order, each after the
\* resources it references and after its provider.
C2_FixedSequenceAfterProvider ==
    \A c \in CallIds : IsAzure(c) =>
        /\ TypesOf(c) = (IF Args(c).azure_provider = None
                         THEN << "pulumi:providers:azure" >> ELSE << >>)
                        \o AzureEight
        /\ \A i \in ResourceIdx(c) : DeclaredAfterItsReferences(i)

C2_Witness ==
    \E c \in CallIds :
        /\ AzureDeclared(c)
        /\ Args(c).azure_provider # None
        /\ Args(c).config # None
        /\ Args(c).resource_group_name = "shared-rg"
        /\ Len(ResourcesOf(c)) = Len(AzureEight)

-----------------------------------------------------------------------------
(* C3 *)

EC2Outputs ==
    {"instance_id", "instance_public_ip", "instance_private_ip",
     "instance_public_dns", "region", "instance_type", "ami_id"}

AzureOutputs ==
    {"vm_id", "vm_public_ip", "vm_private_ip", "vm_location", "vm_size",
     "vm_name", "resource_group_name"}

\* call c published exactly the names in `names`, each once, after its resources
PublishedOnceAfterResources(c, names) ==
    /\ {log[i].name : i \in ExportIdx(c)} = names
    /\ Cardinality(ExportIdx(c)) = Cardinality(names)
    /\ \A i \in ExportIdx(c), j \in ResourceIdx(c) : j < i

\* C3: a call publishes the fixed output names of its constructor, each once
\* and after the call's resources, and the outputs that come from the
\* configuration equal what the compute resource was declared with.
C3_Outputs ==
    \A c \in CallIds :
        /\ (IsEC2(c) \/ IsRootEC2(c)) =>
              /\ PublishedOnceAfterResources(c, EC2Outputs)
              /\ LET inst == TheResource(c, "aws:ec2:Instance")
                 IN  /\ Exported(c, "instance_type") = inst.props.instance_type
                     /\ Exported(c, "ami_id") = inst.props.ami
                     /\ Exported(c, "instance_id") = Attr(inst.name, "id")
        /\ IsAzure(c) =>
              /\ PublishedOnceAfterResources(c, AzureOutputs)
              /\ LET vm == TheResource(c, "azure:compute:VirtualMachine")
                 IN  /\ Exported(c, "vm_size") = vm.props.vm_size
                     /\ Exported(c, "vm_location") = vm.props.location
                     /\ Exported(c, "vm_name") = vm.props.name
                     /\ Exported(c, "vm_id") = Attr(vm.name, "id")

C3_Witness ==
    \E c \in CallIds :
        /\ AzureDeclared(c)
        /\ Args(c).config # None /\ Args(c).vm_size = None
        /\ Args(c).name = "web"
        /\ Exported(c, "vm_size") = "Standard_D2s"
        /\ Exported(c, "vm_name") = "web"

-----------------------------------------------------------------------------
(* C4 *)

KeysRead == [i \in 1 .. Len(reads) |-> reads[i][1]]

\* the value config.get returned for a key the entry point read
ValueRead(key) == reads[CHOOSE i \in 1 .. Len(reads) : reads[i][1] = key][2]

\* C4: the entry point reads instance_size, region, os_image and
\* instance_name, and constructs one EC2Instance (and no AzureVM) from them:
\* instance_size and region default when unset, os_image and instance_name
\* are passed as read.
C4_EntryPoint ==
    reads # << >> =>
        /\ KeysRead = << "instance_size", "region", "os_image", "instance_name" >>
        /\ Len(calls) = 1 /\ IsEC2(1)
        /\ \A i \in 1 .. Len(log) : log[i].call = 1
        /\ LET a == Args(1)
           IN  /\ ValueRead("instance_size") = None => a.instance_size = "t3.micro"
               /\ Truthy(ValueRead("instance_size"))
                     => a.instance_size = ValueRead("instance_size")
               /\ ValueRead("region") = None => a.region = "us-east-1"
               /\ Truthy(ValueRead("region")) => a.region = ValueRead("region")
               /\ a.os_image = ValueRead("os_image")
               /\ a.name = ValueRead("instance_name")
               /\ a.config = None

C4_Witness ==
    /\ reads # << >>
    /\ ValueRead("region") = None /\ ValueRead("instance_size") = "t3.large"
    /\ ValueRead("os_image") = None /\ ValueRead("instance_name") = "db"
    /\ EC2Declared(1)
    /\ Exported(1, "region") = "us-east-1"
    /\ TheResource(1, "aws:ec2:Instance").props.instance_type = "t3.large"

-----------------------------------------------------------------------------
(* C5 *)

\* C5: the image the virtual machine is declared with is the os_image
\* argument when one is given, else the config's os_image when it has one,
\* and Ubuntu 20.04 when neither is provided.
C5_ImageFollowsOsImage ==
    \A c \in CallIds : AzureDeclared(c) =>
        LET a      == Args(c)
            has    == a.config # None /\ azureConfig[1].os_image # None
            image  == ImageUrn(TheResource(c, "azure:compute:VirtualMachine")
                                  .props.storage_image_reference)
        IN  /\ Truthy(a.os_image) => image = a.os_image
            /\ (a.os_image = None /\ has) => image = azureConfig[1].os_image
            /\ (a.os_image = None /\ ~has) => image = UbuntuImage

-----------------------------------------------------------------------------
(* C6 *)

\* C6: the security group and the instance of a call are declared under a
\* provider whose region is the region the call resolved and published.
C6_DeployedInPublishedRegion ==
    \A c \in CallIds : (IsEC2(c) \/ IsRootEC2(c)) =>
        /\ TheResource(c, "aws:ec2:SecurityGroup").provider.region
             = Exported(c, "region")
        /\ TheResource(c, "aws:ec2:Instance").provider.region
             = Exported(c, "region")

-----------------------------------------------------------------------------
(* C7 *)

PrefixesDistinct ==
    \A c, d \in CallIds : c # d => Args(c).resource_prefix # Args(d).resource_prefix

\* C7: when the calls of a program have pairwise distinct resource_prefix
\* values, no two resources of the same type, providers included, are
\* registered under the same name.
C7_NoNameConflict ==
    PrefixesDistinct =>
        \A i, j \in 1 .. Len(log) :
            (i # j /\ log[i].kind = "resource" /\ log[j].kind = "resource"
                   /\ log[i].type = log[j].type)
                => log[i].name # log[j].name

C7_Witness ==
    /\ Len(calls) = 2
    /\ IsEC2(1) /\ IsEC2(2)
    /\ Args(1).resource_prefix = "app" /\ Args(2).resource_prefix = "app-vm"
    /\ Args(1).aws_provider = None /\ Args(2).aws_provider = None
    /\ HasResource(1, "pulumi:providers:aws") /\ HasResource(2, "pulumi:providers:aws")

-----------------------------------------------------------------------------
(* C8 *)

\* the tags a call declared its compute resource with, in the log lg
ComputeTagsIn(lg, c, type) ==
    lg[CHOOSE i \in 1 .. Len(lg) : lg[i].call = c /\ lg[i].type = type].props.tags

\* the tags the compute resource of a call gets when the config holds `tags`
ExpectedTags(a, tags) ==
    Update([Name        |-> Or(a.name, a.resource_prefix \o "-" \o get_stack),
            Project     |-> a.resource_prefix,
            Environment |-> get_stack], tags)

\* C8: a constructor call leaves both config objects as they were, tags
\* included, and the tags it declares are those of the config object as the
\* program built it.
C8_ConfigUnchanged ==
    [][calls' # calls =>
          /\ awsConfig' = awsConfig
          /\ azureConfig' = azureConfig
          /\ LET c == Len(calls')
                 a == calls'[c].args
             IN  /\ (calls'[c].ctor = "EC2Instance" /\ a.config # None) =>
                        ComputeTagsIn(log', c, "aws:ec2:Instance")
                          = ExpectedTags(a, awsConfig[1].tags)
                 /\ (calls'[c].ctor = "AzureVM" /\ a.config # None) =>
                        ComputeTagsIn(log', c, "azure:compute:VirtualMachine")
                          = ExpectedTags(a, azureConfig[1].tags)]_vars

C8_Witness ==
    /\ Len(calls) = 2
    /\ IsEC2(1) /\ IsEC2(2)
    /\ Args(1).config # None /\ Args(2).config # None
    /\ Args(1).name = "web" /\ Args(2).name = None
    /\ awsConfig[1].tags = [Owner |-> "ops"]
    /\ ComputeTagsIn(log, 2, "aws:ec2:Instance")
         = [Name |-> "app-dev", Project |-> "app", Environment |-> "dev",
            Owner |-> "ops"]

-----------------------------------------------------------------------------
(* C9 *)

\* what call c registered and exported, the call's number aside
Declared(c) ==
    LET es == SelectSeq(log, LAMBDA e : e.call = c)
    IN  [i \in 1 .. Len(es) |-> [es[i] EXCEPT !.call = 0]]

\* C9: a call given a default-constructed config object declares and
\* publishes what the same call with config=None does.
C9_DefaultConfigIsNoConfig ==
    (Len(calls) = 2 /\ Args(1).config # None /\ Args(2).config = None
       /\ Args(2) = [Args(1) EXCEPT !.config = None])
        => Declared(1) = Declared(2)

====
